---- MODULE Spec2Model ----
(***************************************************************************)
(* The data access layer of the blog backend: DatabaseStorage (storage.js) *)
(* over the relational schema (users, posts, videos, comments).            *)
(*                                                                         *)
(* Every DatabaseStorage method issues exactly one SQL statement, so each  *)
(* method is one atomic action on the store; concurrent callers are the    *)
(* interleavings of these actions.                                         *)
(*                                                                         *)
(* Column values are encoded uniformly: SQL NULL is <<>>, a value v is     *)
(* <<v>>.  A key that a caller leaves out of an input object (JavaScript   *)
(* undefined) is Absent.  Text that is searched is a sequence of           *)
(* one-character strings.                                                  *)
(***************************************************************************)
EXTENDS Integers, Sequences, FiniteSets, TLC

VARIABLES
    users,        \* rows of table users
    posts,        \* rows of table posts
    videos,       \* rows of table videos
    comments,     \* rows of table comments
    nextId,       \* index of the next id gen_random_uuid() hands out
    now,          \* the clock, in microseconds
    trueDeletes,  \* per generated id, how many deleteX(id) calls returned true
    last          \* the last operation: its name, arguments and outcome

vars == <<users, posts, videos, comments, nextId, now, trueDeletes, last>>

store == <<users, posts, videos, comments>>

----------------------------------------------------------------------------
(* Bounds of the model *)

\* number of ids gen_random_uuid() hands out in one behaviour
MaxIds == 2

\* last reading of the clock, in microseconds
MaxTime == 2

\* last reading of the clock where only ties of createdAt matter
MaxListTime == 1

\* microseconds per millisecond in the model: a JavaScript Date keeps
\* milliseconds, a timestamp column keeps microseconds
MsUnits == 2

\* longest searched text and longest search query, in characters
MaxLen == 2

----------------------------------------------------------------------------
(* Values *)

Null == <<>>

Some(v) == <<v>>

Absent == <<"undefined", "undefined">>

Val(x) == x[1]

\* d[c] when the input object d carries key c, undefined otherwise
Col(d, c) == IF c \in DOMAIN d THEN d[c] ELSE Absent

Min(a, b) == IF a <= b THEN a ELSE b

\* ids the caller of upsertUser supplies
UserIds == {<<"u", 1>>, <<"u", 2>>}

\* gen_random_uuid(): the n-th generated id, never handed out twice
GenId(n) == <<"g", n>>

\* now() as the store evaluates it for a defaultNow() column
defaultNow == Some(now)

\* new Date() as storage.js evaluates it: the clock cut to milliseconds
newDate == Some((now \div MsUnits) * MsUnits)

----------------------------------------------------------------------------
(* Schema: columns, defaults and constraints *)

UserCols ==
    {"id", "email", "firstName", "lastName", "profileImageUrl", "role",
     "createdAt", "updatedAt"}

PostCols ==
    {"id", "title", "content", "excerpt", "imageUrl", "category", "tags",
     "authorId", "published", "createdAt", "updatedAt"}

VideoCols ==
    {"id", "title", "description", "videoUrl", "thumbnailUrl", "category",
     "tags", "duration", "authorId", "published", "createdAt", "updatedAt"}

CommentCols ==
    {"id", "content", "authorId", "postId", "videoId", "createdAt",
     "updatedAt"}

\* the column default the store fills in for a key left out of an insert
Default(c) ==
    CASE c = "id" -> Some(GenId(nextId))
      [] c = "role" -> Some("user")
      [] c = "published" -> Some(FALSE)
      [] c = "createdAt" -> defaultNow
      [] c = "updatedAt" -> defaultNow
      [] OTHER -> Null

PostNotNull == {"id", "title", "content", "category", "authorId"}

VideoNotNull == {"id", "title", "videoUrl", "category", "authorId"}

CommentNotNull == {"id", "content", "authorId"}

UserNotNull == {"id"}

\* INSERT ... VALUES (d): keys left out take the column default
InsertRow(cols, d) ==
    [c \in cols |-> IF Col(d, c) = Absent THEN Default(c) ELSE Col(d, c)]

\* UPDATE ... SET (d): keys left out (undefined) are not assigned
SetRow(row, d) ==
    [c \in DOMAIN row |-> IF Col(d, c) = Absent THEN row[c] ELSE Col(d, c)]

\* the spread written the other way round, { c: v, ...d }: a key d carries wins
UnderKey(d, c, v) ==
    [k \in DOMAIN d \cup {c} |-> IF k \in DOMAIN d THEN d[k] ELSE v]

\* an input object with key c set to v, whatever it carried before
WithKey(d, c, v) ==
    [k \in DOMAIN d \cup {c} |-> IF k = c THEN v ELSE d[k]]

UsesGenId(d) == Col(d, "id") = Absent

Ids(table) == {r.id : r \in table}

RowById(table, id) == {r \in table : r.id = Some(id)}

NotNullOk(row, notNull) == \A c \in notNull : row[c] # Null

\* a foreign key column: NULL, or the id of a row of the referenced table
FkOk(ref, table) == ref = Null \/ ref \in Ids(table)

\* users.email is UNIQUE (NULLs do not collide)
EmailOk(row, others) ==
    row.email = Null \/ \A o \in others : o.email # row.email

\* a reference without onDelete: "cascade" that lets the rows stay
NoCascade(rows, col, gone) == rows

\* references(() => parent.id, { onDelete: "cascade" }) on column col: the
\* rows left once the parent rows with ids gone are deleted
OnDeleteCascade(rows, col, gone) == {r \in rows : r[col] \notin gone}

UserOk(row, others) ==
    /\ NotNullOk(row, UserNotNull)
    /\ row.id \notin Ids(others)
    /\ EmailOk(row, others)

PostOk(row, others) ==
    /\ NotNullOk(row, PostNotNull)
    /\ row.id \notin Ids(others)
    /\ FkOk(row.authorId, users)

VideoOk(row, others) ==
    /\ NotNullOk(row, VideoNotNull)
    /\ row.id \notin Ids(others)
    /\ FkOk(row.authorId, users)

CommentOk(row, others) ==
    /\ NotNullOk(row, CommentNotNull)
    /\ row.id \notin Ids(others)
    /\ FkOk(row.authorId, users)
    /\ FkOk(row.postId, posts)
    /\ FkOk(row.videoId, videos)

----------------------------------------------------------------------------
(* Queries: join, filter, order, page, map *)

\* posts LEFT JOIN users ON authorId = users.id: one joined row per entity
\* row, the users side NULL when no user has that id
leftJoin(row) ==
    [entity |-> row,
     users |-> IF \E u \in users : u.id = row.authorId
               THEN Some(CHOOSE u \in users : u.id = row.authorId)
               ELSE Null]

\* rows.map(row => ({...row.posts, author: row.users!})): the non-null
\* assertion is erased at run time, so author is whatever the join gave
WithAuthor(j) ==
    [c \in DOMAIN j.entity \cup {"author"} |->
        IF c = "author" THEN j.users ELSE j.entity[c]]

\* a gate that lets a NULL flag through
IsNotUnpublished(row) == row.published # Some(FALSE)

\* eq(table.published, true): NULL = true is not true
IsPublished(row) == row.published = Some(TRUE)

\* desc(createdAt): a may stand before b (descending, NULLs first)
MayPrecede(a, b) ==
    \/ a.createdAt = Null
    \/ b.createdAt # Null /\ Val(a.createdAt) >= Val(b.createdAt)

\* every order ORDER BY created_at DESC may return the rows S in: rows with
\* equal createdAt come in any order
OrderByCreatedAtDesc(S) ==
    {s \in [1..Cardinality(S) -> S] :
        /\ \A i, j \in 1..Cardinality(S) : i # j => s[i] # s[j]
        /\ \A i, j \in 1..Cardinality(S) : i < j => MayPrecede(s[i], s[j])}

\* .limit(limit).offset(offset) of an ordered result
Page(s, limit, offset) == SubSeq(s, offset + 1, Min(offset + limit, Len(s)))

MapRows(s) == [i \in 1..Len(s) |-> WithAuthor(leftJoin(s[i]))]

\* lower case of one character
Lower(ch) == IF ch = "A" THEN "a" ELSE IF ch = "B" THEN "b" ELSE ch

\* text LIKE pattern, case folded: % matches any run of characters, _ any
\* one character, a backslash makes the next pattern character literal
RECURSIVE Like(_, _)
Like(s, p) ==
    IF p = <<>> THEN s = <<>>
    ELSE IF Head(p) = "%" THEN
        Like(s, Tail(p)) \/ (s # <<>> /\ Like(Tail(s), p))
    ELSE IF Head(p) = "_" THEN
        s # <<>> /\ Like(Tail(s), Tail(p))
    ELSE IF Head(p) = "\\" /\ Tail(p) # <<>> THEN
        /\ s # <<>>
        /\ Lower(Head(s)) = Lower(Head(Tail(p)))
        /\ Like(Tail(s), Tail(Tail(p)))
    ELSE
        /\ s # <<>>
        /\ Lower(Head(s)) = Lower(Head(p))
        /\ Like(Tail(s), Tail(p))

\* ilike(column, `%${query}%`): NULL ILIKE p is not true
ilike(x, query) == x # Null /\ Like(Val(x), <<"%">> \o query \o <<"%">>)

PostMatches(p, query) ==
    ilike(p.title, query) \/ ilike(p.content, query) \/ ilike(p.excerpt, query)

VideoMatches(v, query) ==
    ilike(v.title, query) \/ ilike(v.description, query)

\* the results each read may return (one per admissible row order)
getPostsResults(limit, offset) ==
    {MapRows(Page(s, limit, offset)) :
        s \in OrderByCreatedAtDesc({p \in posts : IsPublished(p)})}

getPostsByCategoryResults(category, limit, offset) ==
    {MapRows(Page(s, limit, offset)) :
        s \in OrderByCreatedAtDesc(
            {p \in posts : IsPublished(p) /\ p.category = Some(category)})}

getPostResult(id) ==
    IF RowById(posts, id) = {} THEN <<>>
    ELSE <<WithAuthor(leftJoin(CHOOSE p \in posts : p.id = Some(id)))>>

getPostsByAuthorResults(authorId) ==
    {MapRows(s) :
        s \in OrderByCreatedAtDesc({p \in posts : p.authorId = Some(authorId)})}

searchPostsResults(query) ==
    {MapRows(s) :
        s \in OrderByCreatedAtDesc(
            {p \in posts : IsPublished(p) /\ PostMatches(p, query)})}

getVideosResults(limit, offset) ==
    {MapRows(Page(s, limit, offset)) :
        s \in OrderByCreatedAtDesc({v \in videos : IsPublished(v)})}

getVideosByCategoryResults(category, limit, offset) ==
    {MapRows(Page(s, limit, offset)) :
        s \in OrderByCreatedAtDesc(
            {v \in videos : IsPublished(v) /\ v.category = Some(category)})}

getVideoResult(id) ==
    IF RowById(videos, id) = {} THEN <<>>
    ELSE <<WithAuthor(leftJoin(CHOOSE v \in videos : v.id = Some(id)))>>

getVideosByAuthorResults(authorId) ==
    {MapRows(s) :
        s \in OrderByCreatedAtDesc({v \in videos : v.authorId = Some(authorId)})}

searchVideosResults(query) ==
    {MapRows(s) :
        s \in OrderByCreatedAtDesc(
            {v \in videos : IsPublished(v) /\ VideoMatches(v, query)})}

getCommentsByPostResults(postId) ==
    {MapRows(s) :
        s \in OrderByCreatedAtDesc({c \in comments : c.postId = Some(postId)})}

getCommentsByVideoResults(videoId) ==
    {MapRows(s) :
        s \in OrderByCreatedAtDesc({c \in comments : c.videoId = Some(videoId)})}

----------------------------------------------------------------------------
(* Outcomes *)

\* a call that returned: result is the returned value (a list, a one-row or
\* empty list for "row or undefined", or a boolean)
Ok(op, args, result) ==
    [op |-> op, args |-> args, status |-> "ok", result |-> result]

\* a call the store rejected (a constraint violation): the failure goes to
\* the caller and the statement changes nothing
Failed(op, args) ==
    [op |-> op, args |-> args, status |-> "error", result |-> <<>>]

AllGenIds == {GenId(n) : n \in 1..MaxIds}

\* a deleteX that reports success whatever the statement removed
AlwaysTrue(removed) == TRUE

\* the value deleteX returns: (result.rowCount ?? 0) > 0
RowCountPositive(removed) == Cardinality(removed) > 0

CountTrue(id, returned) ==
    IF returned /\ id \in AllGenIds
    THEN [trueDeletes EXCEPT ![id] = @ + 1]
    ELSE trueDeletes

----------------------------------------------------------------------------
(* User operations *)

getUser(id) ==
    /\ last' = Ok("getUser", <<id>>, IF RowById(users, id) = {} THEN <<>>
                  ELSE <<CHOOSE u \in users : u.id = Some(id)>>)
    /\ UNCHANGED <<store, nextId, now, trueDeletes>>

\* INSERT ... ON CONFLICT (id) DO UPDATE SET {...userData, updatedAt: new Date()}
upsertUser(userData) ==
    LET row == InsertRow(UserCols, userData)
        hit == {u \in users : u.id = row.id}
        others == users \ hit
        upd == SetRow(CHOOSE u \in hit : TRUE,
                      WithKey(userData, "updatedAt", newDate))
        new == IF hit = {} THEN row ELSE upd
    IN  /\ UsesGenId(userData) => nextId <= MaxIds
        /\ IF NotNullOk(row, UserNotNull) /\ UserOk(new, others)
           THEN /\ users' = others \cup {new}
                /\ nextId' = IF UsesGenId(userData) THEN nextId + 1 ELSE nextId
                /\ last' = Ok("upsertUser", <<userData>>, <<new>>)
           ELSE /\ last' = Failed("upsertUser", <<userData>>)
                /\ UNCHANGED <<users, nextId>>
        /\ UNCHANGED <<posts, videos, comments, now, trueDeletes>>

\* DELETE FROM users WHERE id = ..., which no DatabaseStorage method issues:
\* the schema's onDelete: "cascade" removes the user's posts, videos and
\* comments, and the comments of those posts and videos
deleteUser(id) ==
    LET hit == RowById(users, id)
        keptPosts == OnDeleteCascade(posts, "authorId", Ids(hit))
        keptVideos == OnDeleteCascade(videos, "authorId", Ids(hit))
        keptComments ==
            OnDeleteCascade(
                OnDeleteCascade(
                    OnDeleteCascade(comments, "authorId", Ids(hit)),
                    "postId", Ids(posts \ keptPosts)),
                "videoId", Ids(videos \ keptVideos))
    IN  /\ hit # {}
        /\ users' = users \ hit
        /\ posts' = keptPosts
        /\ videos' = keptVideos
        /\ comments' = keptComments
        /\ last' = Ok("deleteUser", <<id>>,
                      [posts |-> posts \ keptPosts,
                       videos |-> videos \ keptVideos,
                       comments |-> comments \ keptComments])
        /\ UNCHANGED <<nextId, now, trueDeletes>>

----------------------------------------------------------------------------
(* Post operations *)

getPosts(limit, offset) ==
    /\ \E r \in getPostsResults(limit, offset) :
            last' = Ok("getPosts", <<limit, offset>>, r)
    /\ UNCHANGED <<store, nextId, now, trueDeletes>>

getPostsByCategory(category, limit, offset) ==
    /\ \E r \in getPostsByCategoryResults(category, limit, offset) :
            last' = Ok("getPostsByCategory", <<category, limit, offset>>, r)
    /\ UNCHANGED <<store, nextId, now, trueDeletes>>

getPost(id) ==
    /\ last' = Ok("getPost", <<id>>, getPostResult(id))
    /\ UNCHANGED <<store, nextId, now, trueDeletes>>

getPostsByAuthor(authorId) ==
    /\ \E r \in getPostsByAuthorResults(authorId) :
            last' = Ok("getPostsByAuthor", <<authorId>>, r)
    /\ UNCHANGED <<store, nextId, now, trueDeletes>>

searchPosts(query) ==
    /\ \E r \in searchPostsResults(query) :
            last' = Ok("searchPosts", <<query>>, r)
    /\ UNCHANGED <<store, nextId, now, trueDeletes>>

createPost(post) ==
    LET row == InsertRow(PostCols, post)
    IN  /\ nextId <= MaxIds
        /\ IF PostOk(row, posts)
           THEN /\ posts' = posts \cup {row}
                /\ nextId' = nextId + 1
                /\ last' = Ok("createPost", <<post>>, <<row>>)
           ELSE /\ last' = Failed("createPost", <<post>>)
                /\ UNCHANGED <<posts, nextId>>
        /\ UNCHANGED <<users, videos, comments, now, trueDeletes>>

updatePost(id, post) ==
    LET hit == RowById(posts, id)
        upd == SetRow(CHOOSE p \in hit : TRUE,
                      WithKey(post, "updatedAt", newDate))
    IN  /\ IF hit = {}
           THEN /\ last' = Ok("updatePost", <<id, post>>, <<>>)
                /\ UNCHANGED posts
           ELSE IF PostOk(upd, posts \ hit)
           THEN /\ posts' = (posts \ hit) \cup {upd}
                /\ last' = Ok("updatePost", <<id, post>>, <<upd>>)
           ELSE /\ last' = Failed("updatePost", <<id, post>>)
                /\ UNCHANGED posts
        /\ UNCHANGED <<users, videos, comments, nextId, now, trueDeletes>>

deletePost(id) ==
    LET hit == RowById(posts, id)
    IN  /\ posts' = posts \ hit
        /\ comments' = OnDeleteCascade(comments, "postId", Ids(hit))
        /\ trueDeletes' = CountTrue(id, RowCountPositive(hit))
        /\ last' = Ok("deletePost", <<id>>, RowCountPositive(hit))
        /\ UNCHANGED <<users, videos, nextId, now>>

----------------------------------------------------------------------------
(* Video operations *)

getVideos(limit, offset) ==
    /\ \E r \in getVideosResults(limit, offset) :
            last' = Ok("getVideos", <<limit, offset>>, r)
    /\ UNCHANGED <<store, nextId, now, trueDeletes>>

getVideosByCategory(category, limit, offset) ==
    /\ \E r \in getVideosByCategoryResults(category, limit, offset) :
            last' = Ok("getVideosByCategory", <<category, limit, offset>>, r)
    /\ UNCHANGED <<store, nextId, now, trueDeletes>>

getVideo(id) ==
    /\ last' = Ok("getVideo", <<id>>, getVideoResult(id))
    /\ UNCHANGED <<store, nextId, now, trueDeletes>>

getVideosByAuthor(authorId) ==
    /\ \E r \in getVideosByAuthorResults(authorId) :
            last' = Ok("getVideosByAuthor", <<authorId>>, r)
    /\ UNCHANGED <<store, nextId, now, trueDeletes>>

searchVideos(query) ==
    /\ \E r \in searchVideosResults(query) :
            last' = Ok("searchVideos", <<query>>, r)
    /\ UNCHANGED <<store, nextId, now, trueDeletes>>

createVideo(video) ==
    LET row == InsertRow(VideoCols, video)
    IN  /\ nextId <= MaxIds
        /\ IF VideoOk(row, videos)
           THEN /\ videos' = videos \cup {row}
                /\ nextId' = nextId + 1
                /\ last' = Ok("createVideo", <<video>>, <<row>>)
           ELSE /\ last' = Failed("createVideo", <<video>>)
                /\ UNCHANGED <<videos, nextId>>
        /\ UNCHANGED <<users, posts, comments, now, trueDeletes>>

updateVideo(id, video) ==
    LET hit == RowById(videos, id)
        upd == SetRow(CHOOSE v \in hit : TRUE,
                      WithKey(video, "updatedAt", newDate))
    IN  /\ IF hit = {}
           THEN /\ last' = Ok("updateVideo", <<id, video>>, <<>>)
                /\ UNCHANGED videos
           ELSE IF VideoOk(upd, videos \ hit)
           THEN /\ videos' = (videos \ hit) \cup {upd}
                /\ last' = Ok("updateVideo", <<id, video>>, <<upd>>)
           ELSE /\ last' = Failed("updateVideo", <<id, video>>)
                /\ UNCHANGED videos
        /\ UNCHANGED <<users, posts, comments, nextId, now, trueDeletes>>

deleteVideo(id) ==
    LET hit == RowById(videos, id)
    IN  /\ videos' = videos \ hit
        /\ comments' = OnDeleteCascade(comments, "videoId", Ids(hit))
        /\ trueDeletes' = CountTrue(id, RowCountPositive(hit))
        /\ last' = Ok("deleteVideo", <<id>>, RowCountPositive(hit))
        /\ UNCHANGED <<users, posts, nextId, now>>

----------------------------------------------------------------------------
(* Comment operations *)

getCommentsByPost(postId) ==
    /\ \E r \in getCommentsByPostResults(postId) :
            last' = Ok("getCommentsByPost", <<postId>>, r)
    /\ UNCHANGED <<store, nextId, now, trueDeletes>>

getCommentsByVideo(videoId) ==
    /\ \E r \in getCommentsByVideoResults(videoId) :
            last' = Ok("getCommentsByVideo", <<videoId>>, r)
    /\ UNCHANGED <<store, nextId, now, trueDeletes>>

createComment(comment) ==
    LET row == InsertRow(CommentCols, comment)
    IN  /\ nextId <= MaxIds
        /\ IF CommentOk(row, comments)
           THEN /\ comments' = comments \cup {row}
                /\ nextId' = nextId + 1
                /\ last' = Ok("createComment", <<comment>>, <<row>>)
           ELSE /\ last' = Failed("createComment", <<comment>>)
                /\ UNCHANGED <<comments, nextId>>
        /\ UNCHANGED <<users, posts, videos, now, trueDeletes>>

deleteComment(id) ==
    LET hit == RowById(comments, id)
    IN  /\ comments' = comments \ hit
        /\ trueDeletes' = CountTrue(id, RowCountPositive(hit))
        /\ last' = Ok("deleteComment", <<id>>, RowCountPositive(hit))
        /\ UNCHANGED <<users, posts, videos, nextId, now>>

----------------------------------------------------------------------------
(* The clock *)

\* time passes between two statements, or does not
Tick(limit) ==
    /\ now < limit
    /\ now' = now + 1
    /\ last' = Ok("tick", <<>>, TRUE)
    /\ UNCHANGED <<store, nextId, trueDeletes>>

----------------------------------------------------------------------------
(* Inputs shared by the specifications *)

\* getX(limit = 20, offset = 0)
DefaultLimit == 20

\* page sizes k the paged reads are examined for
PageSizes == {1, 2}

\* limit and offset of the paged reads the callers issue
Limits == {1, DefaultLimit}

Offsets == {0, 1}

Categories == {"tech", "news"}

TextA == <<"a">>

TextB == <<"b">>

NoCall == Ok("none", <<>>, TRUE)

Init ==
    /\ users = {}
    /\ posts = {}
    /\ videos = {}
    /\ comments = {}
    /\ nextId = 1
    /\ now = 0
    /\ trueDeletes = [i \in AllGenIds |-> 0]
    /\ last = NoCall

----------------------------------------------------------------------------
(* Spec: users, posts and videos under every operation on them *)

UserInputs == [id : {Some(u) : u \in UserIds}]

PostInputs ==
    [title : {Some(TextA)}, content : {Some(TextB)},
     category : {Some("tech")},
     authorId : {Some(u) : u \in UserIds},
     published : {Absent, Null, Some(FALSE), Some(TRUE)}]

PostPatches == [published : {Some(FALSE), Some(TRUE)}]

VideoInputs ==
    [title : {Some(TextA)}, videoUrl : {Some("url")},
     category : {Some("tech")},
     authorId : {Some(u) : u \in UserIds},
     published : {Absent, Null, Some(FALSE), Some(TRUE)}]

VideoPatches == [published : {Some(FALSE), Some(TRUE)}]

Queries == {<<>>, TextA}

Next ==
    \/ Tick(MaxListTime)
    \/ \E id \in UserIds : getUser(id)
    \/ \E d \in UserInputs : upsertUser(d)
    \/ \E id \in UserIds : deleteUser(id)
    \/ \E l \in Limits, o \in Offsets : getPosts(l, o)
    \/ \E c \in Categories, l \in Limits, o \in Offsets : getPostsByCategory(c, l, o)
    \/ \E id \in AllGenIds : getPost(id)
    \/ \E a \in UserIds : getPostsByAuthor(a)
    \/ \E q \in Queries : searchPosts(q)
    \/ \E d \in PostInputs : createPost(d)
    \/ \E id \in AllGenIds, d \in PostPatches : updatePost(id, d)
    \/ \E id \in AllGenIds : deletePost(id)
    \/ \E l \in Limits, o \in Offsets : getVideos(l, o)
    \/ \E c \in Categories, l \in Limits, o \in Offsets : getVideosByCategory(c, l, o)
    \/ \E id \in AllGenIds : getVideo(id)
    \/ \E a \in UserIds : getVideosByAuthor(a)
    \/ \E q \in Queries : searchVideos(q)
    \/ \E d \in VideoInputs : createVideo(d)
    \/ \E id \in AllGenIds, d \in VideoPatches : updateVideo(id, d)
    \/ \E id \in AllGenIds : deleteVideo(id)

Spec == Init /\ [][Next]_vars

----------------------------------------------------------------------------
(* Claims about the publish gate, pagination and the publish scenario *)

RowIds(r) == {r[i].id : i \in 1..Len(r)}

AllPublished(r) == \A i \in 1..Len(r) : r[i].published = Some(TRUE)

\* r holds exactly the rows of S, each once
HoldsExactly(r, S) == RowIds(r) = Ids(S) /\ Len(r) = Cardinality(S)

\* C1: the paged lists, the category lists and the searches of posts and of
\* videos return only rows whose published flag is true; the lookup by id
\* and the list by author return every matching row, whatever its flag
C1_PublishGate ==
    /\ \A l \in Limits, o \in Offsets :
        /\ \A r \in getPostsResults(l, o) : AllPublished(r)
        /\ \A r \in getVideosResults(l, o) : AllPublished(r)
        /\ \A c \in Categories :
            /\ \A r \in getPostsByCategoryResults(c, l, o) : AllPublished(r)
            /\ \A r \in getVideosByCategoryResults(c, l, o) : AllPublished(r)
    /\ \A q \in Queries :
        /\ \A r \in searchPostsResults(q) : AllPublished(r)
        /\ \A r \in searchVideosResults(q) : AllPublished(r)
    /\ \A p \in posts :
        /\ Len(getPostResult(Val(p.id))) = 1
        /\ getPostResult(Val(p.id))[1].id = p.id
        /\ getPostResult(Val(p.id))[1].published = p.published
    /\ \A v \in videos :
        /\ Len(getVideoResult(Val(v.id))) = 1
        /\ getVideoResult(Val(v.id))[1].id = v.id
        /\ getVideoResult(Val(v.id))[1].published = v.published
    /\ \A a \in UserIds :
        /\ \A r \in getPostsByAuthorResults(a) :
            HoldsExactly(r, {p \in posts : p.authorId = Some(a)})
        /\ \A r \in getVideosByAuthorResults(a) :
            HoldsExactly(r, {v \in videos : v.authorId = Some(a)})

\* a list by author returned an unpublished post while a video with a NULL
\* flag was in the store
C1_Witness ==
    /\ last.op = "getPostsByAuthor"
    /\ \E i \in 1..Len(last.result) : last.result[i].published = Some(FALSE)
    /\ \E v \in videos : v.published = Null

SortedDesc(r) == \A i, j \in 1..Len(r) : i < j => MayPrecede(r[i], r[j])

\* r holds the first rows of S in descending createdAt order: no row of S
\* left out of r is newer than a row in r
IsPrefixOf(r, S) ==
    /\ RowIds(r) \subseteq Ids(S)
    /\ Cardinality(RowIds(r)) = Len(r)
    /\ SortedDesc(r)
    /\ \A x \in S : x.id \notin RowIds(r) =>
            \A i \in 1..Len(r) : MayPrecede(r[i], x)

\* two consecutive pages of size k over the published rows S
PagesPartition(k, r1, r2, S) ==
    /\ Len(r1) <= k
    /\ Len(r2) <= k
    /\ RowIds(r1) \cap RowIds(r2) = {}
    /\ Len(r1 \o r2) = Min(2 * k, Cardinality(S))
    /\ IsPrefixOf(r1 \o r2, S)

\* C2: for every k, getX(k, 0) and getX(k, k) return at most k rows each,
\* share no row and together are the first 2k published rows in descending
\* createdAt order, also when published rows have the same createdAt
C2_Pagination ==
    \A k \in PageSizes :
        /\ \A r1 \in getPostsResults(k, 0), r2 \in getPostsResults(k, k) :
            PagesPartition(k, r1, r2, {p \in posts : IsPublished(p)})
        /\ \A r1 \in getVideosResults(k, 0), r2 \in getVideosResults(k, k) :
            PagesPartition(k, r1, r2, {v \in videos : IsPublished(v)})

\* the post an updatePost step is about to publish: unpublished, and the
\* entity created last (no create since)
PublishesLatest(id, patch) ==
    /\ patch = [published |-> Some(TRUE)]
    /\ id = GenId(nextId - 1)
    /\ \E p \in posts : p.id = Some(id) /\ p.published = Some(FALSE)

\* what the scenario expects right after an unpublished post was created
CreatedUnpublishedIsHidden ==
    (/\ last.op = "createPost"
     /\ last.status = "ok"
     /\ last.result[1].published = Some(FALSE))
    => LET p == last.result[1]
           got == getPostResult(Val(p.id))
       IN  /\ Len(got) = 1
           /\ got[1].id = p.id
           /\ got[1].author # Null
           /\ Val(got[1].author).id = p.authorId
           /\ \A r \in getPostsResults(DefaultLimit, 0) :
                    p.id \notin RowIds(r)

\* getPosts() holds the post id as its first element
IsHeadOfPosts(id) ==
    \A r \in getPostsResults(DefaultLimit, 0) :
        Len(r) >= 1 /\ r[1].id = Some(id)

\* C9: after createPost of an unpublished post p of author A, getPost(p.id)
\* returns p with author.id = A and getPosts() does not hold p; after
\* updatePost(p.id, {published: true}) with no create in between,
\* getPosts() holds p as its first element
C9_PublishScenario ==
    [][/\ CreatedUnpublishedIsHidden'
       /\ \A id \in AllGenIds :
            (/\ last'.op = "updatePost"
             /\ last'.status = "ok"
             /\ last'.args[1] = id
             /\ PublishesLatest(id, last'.args[2]))
            => IsHeadOfPosts(id)'
      ]_vars

----------------------------------------------------------------------------
(* SpecPatch: posts and videos of one author under partial updates *)

U1 == CHOOSE u \in UserIds : u[2] = 1

U2 == CHOOSE u \in UserIds : u[2] = 2

PatchUserInputs == [id : {Some(U1)}]

PatchPostInputs ==
    [title : {Some(TextA)}, content : {Some(TextB)},
     category : {Some("tech")}, authorId : {Some(U1)}]

PatchVideoInputs ==
    [title : {Some(TextA)}, videoUrl : {Some("url")},
     category : {Some("tech")}, authorId : {Some(U1)}]

\* partial inputs: no key, one key, two keys with an updatedAt of the
\* caller's, an author no user row has
Patches ==
    {<<>>}
        \cup [title : {Some(TextB)}]
        \cup [published : {Some(TRUE)}]
        \cup [title : {Some(TextB)}, updatedAt : {Some(MaxTime)}]
        \cup [authorId : {Some(U2)}]

NextPatch ==
    \/ Tick(MaxTime)
    \/ \E d \in PatchUserInputs : upsertUser(d)
    \/ \E d \in PatchPostInputs : createPost(d)
    \/ \E id \in AllGenIds, d \in Patches : updatePost(id, d)
    \/ \E id \in AllGenIds : deletePost(id)
    \/ \E id \in AllGenIds : getPost(id)
    \/ \E d \in PatchVideoInputs : createVideo(d)
    \/ \E id \in AllGenIds, d \in Patches : updateVideo(id, d)
    \/ \E id \in AllGenIds : deleteVideo(id)
    \/ \E id \in AllGenIds : getVideo(id)

SpecPatch == Init /\ [][NextPatch]_vars

\* what an accepted updateX(id, d) that returned result made of table
\* before: nothing when no row has the id; else the supplied keys of the row
\* set, its other columns but updatedAt kept, every other row kept
PatchedRow(before, after, id, d, result) ==
    IF RowById(before, id) = {}
    THEN result = <<>> /\ after = before
    ELSE LET b == CHOOSE r \in before : r.id = Some(id)
         IN  /\ Len(result) = 1
             /\ result[1] \in after
             /\ result[1].id = Some(id)
             /\ after \ {result[1]} = before \ {b}
             /\ \A c \in DOMAIN b \ {"updatedAt"} :
                    result[1][c] = IF Col(d, c) = Absent THEN b[c] ELSE d[c]

\* updatedAt of the updated row is later than it was
UpdatedAtGrew(before, id, result) ==
    RowById(before, id) # {} =>
        Val(result[1].updatedAt) >
            Val((CHOOSE r \in before : r.id = Some(id)).updatedAt)

\* updatedAt of the updated row is new Date() as the call read it
UpdatedAtIsNewDate(before, id, result) ==
    RowById(before, id) # {} => result[1].updatedAt = newDate

IsUpdate(l, op, id) == l.op = op /\ l.status = "ok" /\ l.args[1] = id

\* C4: updateX(id, partialData) sets exactly the supplied fields, leaves the
\* others but updatedAt unchanged, and sets updatedAt to a value strictly
\* greater than before, overriding any updatedAt supplied; with no row of
\* that id it returns absent and changes no row
C4_PartialPatchStrict ==
    [][\A id \in AllGenIds :
        /\ IsUpdate(last', "updatePost", id) =>
            /\ PatchedRow(posts, posts', id, last'.args[2], last'.result)
            /\ UpdatedAtGrew(posts, id, last'.result)
        /\ IsUpdate(last', "updateVideo", id) =>
            /\ PatchedRow(videos, videos', id, last'.args[2], last'.result)
            /\ UpdatedAtGrew(videos, id, last'.result)
      ]_vars

\* C4, amended: updateX(id, partialData) sets exactly the supplied fields,
\* leaves the others but updatedAt unchanged, and sets updatedAt to the
\* time of the call as new Date() reads it, overriding any updatedAt
\* supplied; with no row of that id it returns absent and changes no row
C4_PartialPatch ==
    [][\A id \in AllGenIds :
        /\ IsUpdate(last', "updatePost", id) =>
            /\ PatchedRow(posts, posts', id, last'.args[2], last'.result)
            /\ UpdatedAtIsNewDate(posts, id, last'.result)
            /\ UNCHANGED <<users, videos, comments>>
        /\ IsUpdate(last', "updateVideo", id) =>
            /\ PatchedRow(videos, videos', id, last'.args[2], last'.result)
            /\ UpdatedAtIsNewDate(videos, id, last'.result)
            /\ UNCHANGED <<users, posts, comments>>
      ]_vars

\* an update that carried a title and an updatedAt of the caller's changed
\* the title of a stored video and stamped another updatedAt
C4_Witness ==
    /\ last.op = "updateVideo"
    /\ last.status = "ok"
    /\ Len(last.result) = 1
    /\ DOMAIN last.args[2] = {"title", "updatedAt"}
    /\ last.result[1].title = Some(TextB)
    /\ last.result[1].updatedAt # last.args[2].updatedAt
    /\ last.result[1] \in videos

----------------------------------------------------------------------------
(* SpecCascade: users, posts, videos and comments under create and delete *)

CascadePostInputs ==
    [title : {Some(TextA)}, content : {Some(TextB)},
     category : {Some("tech")}, authorId : {Some(u) : u \in UserIds}]

CascadeVideoInputs ==
    [title : {Some(TextA)}, videoUrl : {Some("url")},
     category : {Some("tech")}, authorId : {Some(u) : u \in UserIds}]

\* a comment input names a post, a video, both or neither
CommentInputs ==
    [content : {Some(TextA)},
     authorId : {Some(u) : u \in UserIds},
     postId : {Null} \cup {Some(i) : i \in AllGenIds},
     videoId : {Null} \cup {Some(i) : i \in AllGenIds}]

NextCascade ==
    \/ Tick(MaxListTime)
    \/ \E d \in UserInputs : upsertUser(d)
    \/ \E id \in UserIds : deleteUser(id)
    \/ \E d \in CascadePostInputs : createPost(d)
    \/ \E id \in AllGenIds : deletePost(id)
    \/ \E id \in AllGenIds : getPost(id)
    \/ \E d \in CascadeVideoInputs : createVideo(d)
    \/ \E id \in AllGenIds : deleteVideo(id)
    \/ \E id \in AllGenIds : getVideo(id)
    \/ \E d \in CommentInputs : createComment(d)
    \/ \E id \in AllGenIds : deleteComment(id)
    \/ \E id \in AllGenIds : getCommentsByPost(id)
    \/ \E id \in AllGenIds : getCommentsByVideo(id)

SpecCascade == Init /\ [][NextCascade]_vars

IsDelete(l, op, id) == l.op = op /\ l.args[1] = id

\* a deleteX(id) call on table before: it does not fail, returns true
\* exactly when a row had the id, and leaves no row with the id
DeleteReported(l, before, after, id) ==
    /\ l.status = "ok"
    /\ l.result = (RowById(before, id) # {})
    /\ RowById(after, id) = {}

\* C5: of all deleteX(id) calls for one id exactly one returns true, the
\* one that finds the row; a deleteX of an id no row has returns false
\* without failing and changes nothing; after the delete getX(id) is absent
C5_DeleteOnce ==
    [][\A id \in AllGenIds :
        /\ trueDeletes'[id] <= 1
        /\ IsDelete(last', "deletePost", id) =>
            /\ DeleteReported(last', posts, posts', id)
            /\ getPostResult(id)' = <<>>
            /\ RowById(posts, id) = {} => UNCHANGED store
        /\ IsDelete(last', "deleteVideo", id) =>
            /\ DeleteReported(last', videos, videos', id)
            /\ getVideoResult(id)' = <<>>
            /\ RowById(videos, id) = {} => UNCHANGED store
        /\ IsDelete(last', "deleteComment", id) =>
            /\ DeleteReported(last', comments, comments', id)
            /\ RowById(comments, id) = {} => UNCHANGED store
      ]_vars

\* a second deletePost of an id whose first deletePost returned true
\* returned false
C5_Witness ==
    /\ last.op = "deletePost"
    /\ last.status = "ok"
    /\ last.result = FALSE
    /\ trueDeletes[last.args[1]] = 1

\* no row of the store refers to author u, and no comment hangs on one of
\* the posts or videos goneP, goneV that u had
NothingLeftOf(u, goneP, goneV) ==
    /\ \A p \in posts : p.authorId # Some(u)
    /\ \A v \in videos : v.authorId # Some(u)
    /\ \A c \in comments :
        /\ c.authorId # Some(u)
        /\ c.postId \notin Ids(goneP)
        /\ c.videoId \notin Ids(goneV)
    /\ \A p \in goneP : getPostResult(Val(p.id)) = <<>>
    /\ \A v \in goneV : getVideoResult(Val(v.id)) = <<>>

PostsOf(u) == {p \in posts : p.authorId = Some(u)}

VideosOf(u) == {v \in videos : v.authorId = Some(u)}

NoCommentsByPost(id) == getCommentsByPostResults(id) = {<<>>}

NoCommentsByVideo(id) == getCommentsByVideoResults(id) = {<<>>}

\* C7: once user u is deleted, no post, video or comment of author u is
\* left, nor a comment on a post or video of u, and getX of those posts and
\* videos is absent; once deletePost(p) or deleteVideo(v) has succeeded,
\* getCommentsByPost(p) or getCommentsByVideo(v) is empty
C7_CascadeDelete ==
    [][/\ \A u \in UserIds : \A goneP \in {PostsOf(u)}, goneV \in {VideosOf(u)} :
            IsDelete(last', "deleteUser", u) => NothingLeftOf(u, goneP, goneV)'
       /\ \A id \in AllGenIds :
            /\ (IsDelete(last', "deletePost", id) /\ last'.result = TRUE)
                    => NoCommentsByPost(id)'
            /\ (IsDelete(last', "deleteVideo", id) /\ last'.result = TRUE)
                    => NoCommentsByVideo(id)'
      ]_vars

\* a user was deleted and took along a comment written by another user,
\* which hung on the deleted user's post
C7_Witness ==
    /\ last.op = "deleteUser"
    /\ last.result.posts # {}
    /\ \E c \in last.result.comments :
        /\ c.authorId # Some(last.args[1])
        /\ c.postId \in Ids(last.result.posts)
    /\ comments = {}

\* C10: every stored comment has exactly one of postId and videoId set
C10_OneParent ==
    \A c \in comments : (c.postId = Null) # (c.videoId = Null)

----------------------------------------------------------------------------
(* SpecUser: the users table under upsertUser with every UpsertUser key *)

\* UpsertUser = typeof users.$inferInsert: every column is an optional key,
\* createdAt and updatedAt included
RichUserInputs ==
    [id : {Some(u) : u \in UserIds},
     email : {Absent, Some("e1")},
     firstName : {Absent, Some("n1")},
     createdAt : {Absent, Some(0)},
     updatedAt : {Absent, Some(MaxTime)}]

NextUser ==
    \/ Tick(MaxTime)
    \/ \E id \in UserIds : getUser(id)
    \/ \E d \in RichUserInputs : upsertUser(d)

SpecUser == Init /\ [][NextUser]_vars

\* an upsertUser(d) step on an id that has a row already, made when the
\* clock reads later than that row's updatedAt
IsSecondUpsert(l, d) ==
    /\ l.op = "upsertUser"
    /\ l.status = "ok"
    /\ l.args[1] = d
    /\ Col(d, "id") # Absent
    /\ \E b \in users : b.id = d.id /\ Val(newDate) > Val(b.updatedAt)

\* what the second upsertUser(d) must leave of the row b the first one left
UpsertedOver(b, d, after) ==
    /\ Cardinality({u \in after : u.id = b.id}) = 1
    /\ \A u \in after : u.id = b.id =>
        /\ \A c \in DOMAIN d \ {"updatedAt"} : d[c] # Absent => u[c] = d[c]
        /\ Val(u.updatedAt) > Val(b.updatedAt)
        /\ u.createdAt = b.createdAt

\* C6: after two upsertUser calls with the same id the store holds one row
\* of that id, each field the second call supplied has its value, updatedAt
\* is later than after the first call and createdAt is what it was after
\* the first call, whatever keys the UpsertUser input carries
C6_UpsertTwice ==
    [][\A d \in RichUserInputs :
        IsSecondUpsert(last', d) =>
            UpsertedOver(CHOOSE b \in users : b.id = d.id, d, users')
      ]_vars

----------------------------------------------------------------------------
(* SpecSearch: the searches over one stored post or video of any text *)

Alphabet == {"a", "A", "%", "_", "\\"}

Texts == UNION {[1..n -> Alphabet] : n \in 0..MaxLen}

Author == InsertRow(UserCols, [id |-> Some(U1)])

SearchedPosts ==
    {InsertRow(PostCols,
        [id |-> Some(GenId(1)), title |-> Some(t), content |-> Some(c),
         excerpt |-> e, category |-> Some("tech"), authorId |-> Some(U1),
         published |-> Some(f)]) :
        t \in Texts, c \in {TextB}, e \in {Null, Some(TextA), Some(<<"%">>)},
        f \in BOOLEAN}

SearchedVideos ==
    {InsertRow(VideoCols,
        [id |-> Some(GenId(1)), title |-> Some(t), description |-> e,
         videoUrl |-> Some("url"), category |-> Some("tech"),
         authorId |-> Some(U1), published |-> Some(f)]) :
        t \in Texts, e \in {Null, Some(TextA), Some(<<"_">>)},
        f \in BOOLEAN}

InitSearch ==
    /\ nextId = 2
    /\ now = 0
    /\ users = {Author}
    /\ \/ \E p \in SearchedPosts : posts = {p} /\ videos = {}
       \/ \E v \in SearchedVideos : videos = {v} /\ posts = {}
    /\ comments = {}
    /\ trueDeletes = [i \in AllGenIds |-> 0]
    /\ last = NoCall

NextSearch ==
    \/ \E q \in Texts : searchPosts(q)
    \/ \E q \in Texts : searchVideos(q)

SpecSearch == InitSearch /\ [][NextSearch]_vars

\* text t holds q as a substring, letter case aside, every character of q
\* standing for itself
ContainsLiteral(t, q) ==
    \E i \in 0..(Len(t) - Len(q)) :
        \A j \in 1..Len(q) : Lower(t[i + j]) = Lower(q[j])

FieldContains(x, q) == x # Null /\ ContainsLiteral(Val(x), q)

\* C3: searchX(query) returns exactly the published rows of which a
\* searched field (post: title, content, excerpt; video: title,
\* description) holds query as a literal substring, letter case aside, also
\* for queries holding % or _ and for the empty query
C3_SearchLiteral ==
    /\ last.op = "searchPosts" =>
        HoldsExactly(last.result,
            {p \in posts :
                /\ p.published = Some(TRUE)
                /\ \/ FieldContains(p.title, last.args[1])
                   \/ FieldContains(p.content, last.args[1])
                   \/ FieldContains(p.excerpt, last.args[1])})
    /\ last.op = "searchVideos" =>
        HoldsExactly(last.result,
            {v \in videos :
                /\ v.published = Some(TRUE)
                /\ \/ FieldContains(v.title, last.args[1])
                   \/ FieldContains(v.description, last.args[1])})

----------------------------------------------------------------------------
(* SpecJoin: the joined reads over rows whose author row may be missing *)

CommentId == GenId(MaxIds + 1)

JoinedPosts ==
    {InsertRow(PostCols,
        [id |-> Some(GenId(1)), title |-> Some(TextA), content |-> Some(TextB),
         category |-> Some("tech"), authorId |-> Some(a),
         published |-> Some(f)]) : a \in UserIds, f \in BOOLEAN}

JoinedVideos ==
    {InsertRow(VideoCols,
        [id |-> Some(GenId(2)), title |-> Some(TextA), videoUrl |-> Some("url"),
         category |-> Some("tech"), authorId |-> Some(a),
         published |-> Some(f)]) : a \in UserIds, f \in BOOLEAN}

JoinedComments ==
    {InsertRow(CommentCols,
        [id |-> Some(CommentId), content |-> Some(TextA), authorId |-> Some(a),
         postId |-> pid, videoId |-> vid]) :
        a \in UserIds,
        pid \in {Null, Some(GenId(1))}, vid \in {Null, Some(GenId(2))}}

\* a store that holds the user U1 at most, and rows of authors U1 and U2:
\* the rows of U2 are the rows without author row the left join is
\* written to tolerate
InitJoin ==
    /\ nextId = MaxIds + 1
    /\ now = 0
    /\ users \in {{}, {Author}}
    /\ posts \in {{}} \cup {{p} : p \in JoinedPosts}
    /\ videos \in {{}} \cup {{v} : v \in JoinedVideos}
    /\ comments \in {{}} \cup {{c} : c \in JoinedComments}
    /\ trueDeletes = [i \in AllGenIds |-> 0]
    /\ last = NoCall

NextJoin ==
    \/ \E l \in Limits, o \in Offsets : getPosts(l, o)
    \/ \E c \in Categories, l \in Limits, o \in Offsets : getPostsByCategory(c, l, o)
    \/ \E id \in AllGenIds : getPost(id)
    \/ \E a \in UserIds : getPostsByAuthor(a)
    \/ \E q \in Queries : searchPosts(q)
    \/ \E l \in Limits, o \in Offsets : getVideos(l, o)
    \/ \E c \in Categories, l \in Limits, o \in Offsets : getVideosByCategory(c, l, o)
    \/ \E id \in AllGenIds : getVideo(id)
    \/ \E a \in UserIds : getVideosByAuthor(a)
    \/ \E q \in Queries : searchVideos(q)
    \/ \E id \in AllGenIds : getCommentsByPost(id)
    \/ \E id \in AllGenIds : getCommentsByVideo(id)

SpecJoin == InitJoin /\ [][NextJoin]_vars

JoinedReads ==
    {"getPosts", "getPostsByCategory", "getPost", "getPostsByAuthor",
     "searchPosts", "getVideos", "getVideosByCategory", "getVideo",
     "getVideosByAuthor", "searchVideos", "getCommentsByPost",
     "getCommentsByVideo"}

====
